---- MODULE Spec2Model ----
(***************************************************************************)
(* Conversational query controller of the Ironclad contract chatbot:       *)
(* src/gpt_engine.py (answer_question and its helpers) driven by the chat  *)
(* front-end src/app.py.                                                   *)
(*                                                                         *)
(* Text is a sequence of lexemes.  A lexeme is either a maximal run of     *)
(* word characters (a keyword, an identifier, a letter) or one piece of    *)
(* punctuation or white space, so that the regular expressions and the     *)
(* character scans of the source can be evaluated lexeme by lexeme.        *)
(***************************************************************************)
EXTENDS Integers, Sequences, FiniteSets, TLC

VARIABLES
    chat_history,          \* st.session_state.chat_history
    conversation_summary,  \* st.session_state.conversation_summary
    scope,                 \* st.session_state.scope
    resolved_question,     \* st.session_state.resolved_question
    primary_response,      \* st.session_state.primary_response
    turn,                  \* what the last call of answer_question did
    sql_text,              \* a generated query text handed to the validator
    sql_verdict,           \* outcome of validate_sql_safe on sql_text
    sql_count,             \* outcome of _count_unquoted_percent_s on sql_text
    sql_sections,          \* outcome of _extract_sections on sql_text
    metric_result,         \* the columns and rows handed to _derive_metric
    metric                 \* outcome of _derive_metric on metric_result

vars == <<chat_history, conversation_summary, scope, resolved_question,
          primary_response, turn, sql_text, sql_verdict, sql_count, sql_sections,
          metric_result, metric>>

session_vars == <<chat_history, conversation_summary, scope, resolved_question,
                  primary_response, turn>>

sql_vars == <<sql_text, sql_verdict, sql_count, sql_sections>>

(***************************************************************************)
(* Bounds of the model.                                                    *)
(***************************************************************************)
MaxTurns == 3
MaxValidateLen == 4
MaxCountLen == 6
MaxSectionLen == 5
MaxMetricRows == 2

(***************************************************************************)
(* Python values.                                                          *)
(***************************************************************************)
None == "None"

\* seq[-n:]
LastN(seq, n) ==
    IF Len(seq) <= n THEN seq ELSE SubSeq(seq, Len(seq) - n + 1, Len(seq))

\* seq[:n]
FirstN(seq, n) ==
    IF Len(seq) <= n THEN seq ELSE SubSeq(seq, 1, n)

Contains(seq, x) == \E i \in 1..Len(seq) : seq[i] = x

RECURSIVE DedupeFrom(_, _)
DedupeFrom(seq, acc) ==
    IF seq = <<>> THEN acc
    ELSE DedupeFrom(Tail(seq),
                    IF Contains(acc, Head(seq)) THEN acc ELSE Append(acc, Head(seq)))

\* list(dict.fromkeys(seq)): first occurrences, in order
Dedupe(seq) == DedupeFrom(seq, <<>>)

\* all sequences over alphabet of length at most n
TextsUpTo(alphabet, n) == UNION {[1..k -> alphabet] : k \in 0..n}

(***************************************************************************)
(* Lexemes.                                                                *)
(***************************************************************************)
Whitespace == {" ", "\n"}

\* lexemes that contain no word character
NonWord == Whitespace \cup {";", "'", "%", "--", ",", "*"}

IsWord(lex) == lex \notin NonWord

\* re.IGNORECASE: the upper-case spelling of a keyword lexeme
IgnoreCase(lex) ==
    CASE lex \in {"SELECT", "select", "Select"} -> "SELECT"
      [] lex \in {"DROP", "drop", "Drop"}       -> "DROP"
      [] lex \in {"UPDATE", "update"}           -> "UPDATE"
      [] lex \in {"DELETE", "delete"}           -> "DELETE"
      [] lex \in {"INSERT", "insert"}           -> "INSERT"
      [] lex \in {"SET", "set"}                 -> "SET"
      [] lex \in {"SHOW", "show"}               -> "SHOW"
      [] OTHER                                  -> lex

\* the lexeme's first character is a lower-case s
StartsWithLowerS(lex) == lex \in {"s", "select", "set", "show"}

RECURSIVE LStrip(_, _)
LStrip(text, chars) ==
    IF text # <<>> /\ Head(text) \in chars THEN LStrip(Tail(text), chars) ELSE text

RECURSIVE RStrip(_, _)
RStrip(text, chars) ==
    IF text # <<>> /\ text[Len(text)] \in chars
    THEN RStrip(SubSeq(text, 1, Len(text) - 1), chars)
    ELSE text

\* str.strip()
Strip(text) == RStrip(LStrip(text, Whitespace), Whitespace)

\* a regular expression \bword\b (re.IGNORECASE) matches at lexeme i
WordAt(text, i, word) ==
    /\ IsWord(text[i])
    /\ IgnoreCase(text[i]) = word
    /\ (i = 1 \/ ~IsWord(text[i - 1]))
    /\ (i = Len(text) \/ ~IsWord(text[i + 1]))

\* re.search(r"\bselect\b", text, re.IGNORECASE)
HasSelect(text) == \E i \in 1..Len(text) : WordAt(text, i, "SELECT")

(***************************************************************************)
(* SQL generation and validation.                                          *)
(***************************************************************************)
PROHIBITED_VERBS ==
    {"INSERT", "UPDATE", "DELETE", "DROP", "ALTER", "TRUNCATE", "GRANT",
     "REVOKE", "MERGE", "VACUUM", "COPY", "SET", "SHOW"}

\* PROHIBITED.search(body): ^\s*(verb)\b, the ^ anchored at the start of the
\* text because the pattern is compiled without re.MULTILINE
PROHIBITED(body) ==
    LET rest == LStrip(body, Whitespace) IN
    /\ rest # <<>>
    /\ IsWord(rest[1])
    /\ IgnoreCase(rest[1]) \in PROHIBITED_VERBS
    /\ (Len(rest) = 1 \/ ~IsWord(rest[2]))

\* the text inside the fence, stripped, without its trailing semicolons
extract_sql(text) == RStrip(Strip(text), {";"})

\* "ok" when the function returns, otherwise the ValueError it raises
validate_sql_safe(sql) ==
    LET stripped == Strip(sql)
        body == IF stripped # <<>> /\ stripped[Len(stripped)] = ";"
                THEN Strip(SubSeq(stripped, 1, Len(stripped) - 1))
                ELSE stripped
    IN  IF PROHIBITED(body) THEN "Only SELECT statements are allowed."
        ELSE IF ~HasSelect(body) THEN "Must contain at least one SELECT statement."
        ELSE "ok"

\* the body of the while loop: position i, the in_single flag, the count
RECURSIVE CountScan(_, _, _, _)
CountScan(sql, i, in_single, count) ==
    IF i > Len(sql) THEN count
    ELSE IF sql[i] = "'" THEN
        IF in_single THEN
            IF i + 1 <= Len(sql) /\ sql[i + 1] = "'"
            THEN CountScan(sql, i + 2, in_single, count)
            ELSE CountScan(sql, i + 1, FALSE, count)
        ELSE CountScan(sql, i + 1, TRUE, count)
    ELSE IF ~in_single /\ sql[i] = "%" /\ i + 1 <= Len(sql)
            /\ StartsWithLowerS(sql[i + 1])
        THEN CountScan(sql, i + 2, in_single, count + 1)
    ELSE CountScan(sql, i + 1, in_single, count)

\* every %s of the text, quoted or not
NaiveCount(sql) ==
    Cardinality({i \in 1..Len(sql) :
        sql[i] = "%" /\ i + 1 <= Len(sql) /\ StartsWithLowerS(sql[i + 1])})

_count_unquoted_percent_s(sql) == CountScan(sql, 1, FALSE, 0)

(***************************************************************************)
(* Specification of the pure text functions: a query text is drawn and the *)
(* validator and the placeholder counter are applied to it.                *)
(***************************************************************************)
ValidateAlphabet == {"SELECT", "select", "DROP", "drop", "x", " ", ";"}
CountAlphabet == {"'", "%", "s", "x"}
SectionAlphabet == {"--", "A", "\n", ";", "SELECT", "x"}

SqlTexts ==
    TextsUpTo(ValidateAlphabet, MaxValidateLen) \cup TextsUpTo(CountAlphabet, MaxCountLen)
    \cup TextsUpTo(SectionAlphabet, MaxSectionLen)

Pending == "pending"

Validate ==
    /\ sql_verdict = Pending
    /\ sql_verdict' = validate_sql_safe(sql_text)
    /\ UNCHANGED <<sql_text, sql_count, sql_sections>>
    /\ UNCHANGED session_vars
    /\ UNCHANGED <<metric_result, metric>>

Count ==
    /\ sql_count = -1
    /\ sql_count' = _count_unquoted_percent_s(sql_text)
    /\ UNCHANGED <<sql_text, sql_verdict, sql_sections>>
    /\ UNCHANGED session_vars
    /\ UNCHANGED <<metric_result, metric>>

(***************************************************************************)
(* Section splitter.                                                       *)
(***************************************************************************)
\* str.splitlines(): the lines between line breaks, no empty last line
RECURSIVE SplitLinesFrom(_, _, _)
SplitLinesFrom(text, line, acc) ==
    IF text = <<>> THEN (IF line = <<>> THEN acc ELSE Append(acc, line))
    ELSE IF Head(text) = "\n" THEN SplitLinesFrom(Tail(text), <<>>, Append(acc, line))
    ELSE SplitLinesFrom(Tail(text), Append(line, Head(text)), acc)

SplitLines(text) == SplitLinesFrom(text, <<>>, <<>>)

\* "\n".join(buf)
RECURSIVE JoinLines(_)
JoinLines(buf) ==
    IF buf = <<>> THEN <<>>
    ELSE IF Len(buf) = 1 THEN buf[1]
    ELSE buf[1] \o <<"\n">> \o JoinLines(Tail(buf))

NoTitle == <<None>>

\* line.strip().startswith("--")
IsCommentLine(line) == Strip(line) # <<>> /\ Strip(line)[1] = "--"

\* line.strip().lstrip("-").strip()
TitleOf(line) == Strip(LStrip(Strip(line), {"--"}))

\* the for loop over the lines: the open buffer, the current title, the sections
RECURSIVE SectionScan(_, _, _, _)
SectionScan(src, buf, current_title, sections) ==
    IF src = <<>> THEN
        LET leftover == Strip(JoinLines(buf)) IN
        IF leftover # <<>>
        THEN Append(sections, [title |-> current_title, sql |-> leftover])
        ELSE sections
    ELSE
        LET line == Head(src)
            title == IF IsCommentLine(line) THEN TitleOf(line) ELSE current_title
            buf2 == Append(buf, line)
        IN  IF Contains(line, ";")
            THEN SectionScan(Tail(src), <<>>, NoTitle,
                     Append(sections,
                            [title |-> title,
                             sql |-> Strip(RStrip(Strip(JoinLines(buf2)), {";"}))]))
            ELSE SectionScan(Tail(src), buf2, title, sections)

_extract_sections(sql_block) ==
    SelectSeq(SectionScan(SplitLines(sql_block), <<>>, NoTitle, <<>>),
              LAMBDA s : HasSelect(s.sql))

\* no split yet
Unsplit == [done |-> FALSE, sections |-> <<>>]

Split ==
    /\ ~sql_sections.done
    /\ sql_sections' = [done |-> TRUE, sections |-> _extract_sections(sql_text)]
    /\ UNCHANGED <<sql_text, sql_verdict, sql_count>>
    /\ UNCHANGED session_vars
    /\ UNCHANGED <<metric_result, metric>>

(***************************************************************************)
(* Values of the conversation state.                                       *)
(***************************************************************************)
\* a result cell or an anchor value, with its Python type
PyInt(n)     == [t |-> "int", n |-> n, s |-> ""]
PyFloat(n)   == [t |-> "float", n |-> n, s |-> ""]
PyDecimal(n) == [t |-> "Decimal", n |-> n, s |-> ""]
PyStr(s)     == [t |-> "str", n |-> 0, s |-> s]
PyNone       == [t |-> "NoneType", n |-> 0, s |-> ""]
\* True and False: bool is a subclass of int, with the values 1 and 0
PyBool(b)    == [t |-> "bool", n |-> IF b THEN 1 ELSE 0, s |-> ""]

\* isinstance(v, (int, float, Decimal)), which holds of a bool
IsNumber(v) == v.t \in {"int", "float", "Decimal", "bool"}

\* float(v) of a number
ToFloat(v) == PyFloat(v.n)

\* str(v)
ToStr(v) ==
    IF v.t = "str" THEN v
    ELSE IF v.t = "NoneType" THEN PyStr(None)
    ELSE PyStr(ToString(v.n))

\* safe_json of a cell: Decimal becomes float
safe_json_cell(v) == IF v.t = "Decimal" THEN PyFloat(v.n) ELSE v

\* safe_json of a list of rows
safe_json(rows) ==
    [i \in 1..Len(rows) |-> [j \in 1..Len(rows[i]) |-> safe_json_cell(rows[i][j])]]

\* str.lower() and str.strip() of a label
Lower(s) ==
    CASE s = "Legal" -> "legal"
      [] s = "IT"    -> "it"
      [] s = " Ops " -> " ops "
      [] OTHER       -> s

StripLabel(s) ==
    CASE s = " Ops " -> "Ops"
      [] s = " ops " -> "ops"
      [] s = "   "   -> ""
      [] OTHER       -> s

\* primary_response is None
NoPrimary == [type |-> "none"]

\* a dict: a function from its keys; {} is the empty function
EmptyDict == <<>>

HasKey(d, k) == k \in DOMAIN d

\* d[k] = v
SetKey(d, k, v) == [x \in DOMAIN d \cup {k} |-> IF x = k THEN v ELSE d[x]]

\* every key of keys popped
PopKeys(d, keys) == [x \in DOMAIN d \ keys |-> d[x]]

\* for k, v in u.items(): d[k] = v
UpdateDict(d, u) == [x \in DOMAIN d \cup DOMAIN u |-> IF x \in DOMAIN u THEN u[x] ELSE d[x]]

\* d.get(k) is truthy, for a key that holds a string
Truthy(d, k) == HasKey(d, k) /\ d[k] # None /\ d[k] # ""

HISTORY_CAP == 20
BULLET_CAP == 10

(***************************************************************************)
(* History compressor.  A reply of the completion service is "garbage"     *)
(* (json.loads raises), "nonobject" (JSON, but no object) or "object".     *)
(***************************************************************************)
\* the fallback returns None for the summary
history_selector_drops_summary(prior_summary, reply) ==
    IF reply.kind = "object"
    THEN [relevant_history |-> IF reply.rh_is_list THEN reply.relevant_history ELSE <<>>,
          updated_summary  |-> IF reply.updated_summary \notin {None, ""}
                               THEN reply.updated_summary ELSE prior_summary]
    ELSE [relevant_history |-> <<>>, updated_summary |-> None]

history_selector(prior_summary, reply) ==
    IF reply.kind = "object"
    THEN [relevant_history |-> IF reply.rh_is_list THEN reply.relevant_history ELSE <<>>,
          updated_summary  |-> IF reply.updated_summary \notin {None, ""}
                               THEN reply.updated_summary ELSE prior_summary]
    ELSE [relevant_history |-> <<>>, updated_summary |-> prior_summary]

(***************************************************************************)
(* Follow-up resolver.                                                     *)
(***************************************************************************)
RewriterFallback(user_text) ==
    [is_followup |-> FALSE, resolved_question |-> user_text,
     scope_updates |-> EmptyDict, reset_keys |-> {}]

\* raised: js.setdefault on a value that is no dict (AttributeError)
followup_rewriter(user_text, reply) ==
    CASE reply.kind = "garbage" ->
            [raised |-> FALSE, js |-> RewriterFallback(user_text)]
      [] reply.kind = "nonobject" ->
            [raised |-> TRUE, js |-> RewriterFallback(user_text)]
      [] OTHER ->
            [raised |-> FALSE,
             js |-> [is_followup |-> reply.is_followup,
                     resolved_question |-> reply.resolved_question,
                     scope_updates |-> reply.scope_updates,
                     reset_keys |-> reply.reset_keys]]

\* is_followup(last_q, current_q): the legacy detector's answer
is_followup(last_q, current_q, reply) ==
    IF last_q \in {None, ""} \/ current_q \in {None, ""} THEN FALSE ELSE reply

\* merge_followup(last_q, current_q): the merged question, or current_q for an empty reply
merge_followup(last_q, current_q, reply) ==
    IF reply = "" THEN current_q ELSE reply

(***************************************************************************)
(* Intent classification.                                                  *)
(***************************************************************************)
\* "clause" in q.lower()
HasClause(q) == q \in {"termination Clause of IC-1", "which contracts have an indemnity clause"}

\* IC_ID_RE.finditer(q), upper-cased
IdsIn(q) == IF q = "termination Clause of IC-1" THEN <<"IC-1">> ELSE <<>>

\* re.fullmatch(r"IC-\d+", rid.strip(), re.IGNORECASE)
IsReadableId(rid) == rid \in {"IC-1", "IC-2", "ic-3", " IC-4 "}

\* rid.upper() and x.strip()
UpperId(rid) == IF rid = "ic-3" THEN "IC-3" ELSE rid
StripId(rid) == IF rid = " IC-4 " THEN "IC-4" ELSE rid

DefaultLogic == [operator |-> "AND", exclude |-> <<>>]
DefaultNear == [enabled |-> FALSE, window |-> 120]

\* a reply that is no JSON object parses to {}; a reply that is one has the
\* keys outside reply.missing, those of reply.nulls with the value null.
\* setdefault fills a missing key and leaves a null; terms, logic and
\* readable_ids are normalised when null, intent and near are not.
classify_intent(q, reply) ==
    LET Has(k) == reply.kind = "object" /\ k \notin reply.missing
        Null(k) == Has(k) /\ k \in reply.nulls
        Given(k) == Has(k) /\ ~Null(k)
        intent == IF ~Has("intent") THEN "sql_generic"
                  ELSE IF Null("intent") THEN None ELSE reply.intent
        near == IF ~Has("near") THEN DefaultNear
                ELSE IF Null("near") THEN PyNone ELSE reply.near
        rids == IF Given("readable_ids") THEN reply.readable_ids ELSE <<>>
        valid_ids == SelectSeq(rids, IsReadableId)
        upper_ids == [i \in 1..Len(valid_ids) |-> UpperId(valid_ids[i])]
        cleaned == [i \in 1..Len(upper_ids) |-> StripId(upper_ids[i])]
    IN  [intent       |-> IF HasClause(q) THEN "sql_generic" ELSE intent,
         terms        |-> IF Given("terms") THEN reply.terms ELSE <<>>,
         logic        |-> IF Given("logic") THEN reply.logic ELSE DefaultLogic,
         near         |-> near,
         readable_ids |-> cleaned,
         query_text   |-> IF Given("query_text") THEN reply.query_text ELSE None,
         vendor_term  |-> IF Given("vendor_term") THEN reply.vendor_term ELSE None,
         notes        |-> IF Given("notes") THEN reply.notes ELSE None]

(***************************************************************************)
(* Metric deriver and the canonical order of the weekly report.            *)
(***************************************************************************)
\* re.fullmatch(r"-?\d+(\.\d+)?", s)
IsNumericText(s) == s \in {"7", "-3", "12.5"}

NoMetric == [name |-> None, value |-> PyNone]

\* the first column of row whose value is numeric, scanning from column ci
RECURSIVE MetricScan(_, _, _)
MetricScan(cols, row, ci) ==
    IF ci > Len(row) THEN NoMetric
    ELSE IF IsNumber(row[ci]) \/ (row[ci].t = "str" /\ IsNumericText(row[ci].s))
         THEN [name |-> cols[ci], value |-> row[ci]]
         ELSE MetricScan(cols, row, ci + 1)

_derive_metric(cols, rows) ==
    IF cols = <<>> \/ rows = <<>> THEN NoMetric
    ELSE IF Len(rows) = 1 THEN MetricScan(cols, rows[1], 1)
    ELSE NoMetric

\* the results handed to the metric deriver: no, one or two columns, at most
\* MaxMetricRows rows, cells of every type a query returns
MetricResults ==
    LET cells == {PyInt(7), PyDecimal(4), PyStr("12.5"), PyStr("MSA"), PyBool(TRUE), PyNone}
        ResultsOf(cols) ==
            {[columns |-> cols, rows |-> rows] :
                rows \in TextsUpTo([1..Len(cols) -> cells], MaxMetricRows)}
    IN  ResultsOf(<<>>) \cup ResultsOf(<<"n">>) \cup ResultsOf(<<"label", "n">>)

NotDerived == [derived |-> FALSE]

\* one call of _derive_metric(cols, rows)
Derive ==
    /\ ~metric.derived
    /\ metric' = [derived |-> TRUE,
                  value |-> _derive_metric(metric_result.columns, metric_result.rows)]
    /\ UNCHANGED metric_result
    /\ UNCHANGED sql_vars
    /\ UNCHANGED session_vars

canonical_order ==
    << <<"Contracts Completed with Legal Review (Last 14 Days)">>,
       <<"New Contracts Assigned to Legal (Last 14 Days)">>,
       <<"Total Contracts Going Through Ironclad (Last 14 Days)">>,
       <<"Active Contracts Created Over 90 Days Ago">>,
       <<"Contracts with No Activity Over 90 Days">>,
       <<"Active NDAs Created in Last 14 Days">>,
       <<"Weekly Legal Team - Contracts Completed by Reviewer (Last 14 Days)">>,
       <<"Weekly Legal Team - New Contracts Assigned by Reviewer (Last 14 Days)">>,
       <<"Work in Progress by Department">>,
       <<"Work Completed by Department (Past 12 Months)">>,
       <<"Work Completed by Sum of Contract Value (Past 12 Months)">> >>

UNKNOWN_RANK == 999

\* a sort key that puts the titles outside the canonical order first
CanonicalRankUnknownFirst(title) ==
    IF Contains(canonical_order, title)
    THEN CHOOSE i \in 1..Len(canonical_order) : canonical_order[i] = title
    ELSE 0

\* the sort key: canonical_order.index(title), from 0, or 999
CanonicalRank(title) ==
    IF Contains(canonical_order, title)
    THEN (CHOOSE i \in 1..Len(canonical_order) : canonical_order[i] = title) - 1
    ELSE UNKNOWN_RANK

\* list.sort(key=...): stable, by insertion
RECURSIVE InsertByRank(_, _)
InsertByRank(sorted, x) ==
    IF sorted = <<>> THEN <<x>>
    ELSE IF CanonicalRank(sorted[Len(sorted)].title) <= CanonicalRank(x.title)
         THEN Append(sorted, x)
         ELSE Append(InsertByRank(SubSeq(sorted, 1, Len(sorted) - 1), x),
                     sorted[Len(sorted)])

RECURSIVE SortByRank(_, _)
SortByRank(items, acc) ==
    IF items = <<>> THEN acc
    ELSE SortByRank(Tail(items), InsertByRank(acc, Head(items)))

(***************************************************************************)
(* The store.  run_sql is called with a statement and, possibly, a tuple   *)
(* of parameters; the environment decides which call of a turn fails and   *)
(* what a successful call returns.                                         *)
(***************************************************************************)
\* run_sql(sql) and run_sql(sql, params)
Call(sql, bound, params, generated) ==
    [sql |-> sql, bound |-> bound, params |-> params, generated |-> generated]

SQL_SUMMARIZE == <<"SELECT chunk_id,chunk_text FROM ic.contract_chunks WHERE readable_id=%s ORDER BY chunk_id">>
SQL_PREFILTER == <<"SELECT title FROM ic.contract_texts WHERE LOWER(title) ILIKE %s ... LIMIT 10">>
SQL_TITLE     == <<"SELECT readable_id FROM ic.contract_texts WHERE LOWER(title) ILIKE %s ... ORDER BY updated_at DESC LIMIT 1">>
SQL_RAG_ONE   == <<"SELECT ... FROM ic.contract_chunks WHERE readable_id = %s ORDER BY embedding <=> %s::vector LIMIT 24">>
SQL_RAG_ALL   == <<"SELECT ... FROM ic.contract_chunks ORDER BY embedding <=> %s::vector LIMIT 40">>
SQL_COUNT     == <<"WITH matches AS (...) SELECT COUNT(*) AS contracts_with_term, ARRAY(... LIMIT 5) AS example_ids FROM matches">>
SQL_NEAR      == <<"SELECT readable_id,chunk_id,LEFT(chunk_text,300) AS snippet FROM ic.contract_chunks WHERE chunk_text ~ %s LIMIT %s">>
SQL_ILIKE     == <<"SELECT readable_id,chunk_id,LEFT(chunk_text,300) AS snippet FROM ic.contract_chunks WHERE chunk_text ILIKE '%'||%s||'%' ORDER BY readable_id,chunk_id LIMIT %s">>

RAG_TOP_K_ONE == 24
RAG_TOP_K_ALL == 40
SNIPPET_LIMIT == 10
EXAMPLE_IDS == 5
PREVIEW_ROWS == 50
LABEL_CAP == 100

\* [r[k] for r in rows]
Column(rows, k) == [i \in 1..Len(rows) |-> rows[i][k]]

(***************************************************************************)
(* answer_question, the dispatcher branches.  Each branch gets the context *)
(* ctx of the turn (the arguments a, the replies env of the services, the  *)
(* intent, the scope, the follow-up flag, the resolved question and the    *)
(* updated summary) and yields what the call did: the store calls, in      *)
(* order, and either the returned dict or the exception it raised.         *)
(***************************************************************************)
NoResult ==
    [sql |-> <<>>, columns |-> <<>>, rows |-> <<>>, stream |-> [fn |-> None],
     intent_json |-> None, conversation_summary |-> None, scope |-> EmptyDict,
     resolved_question |-> None, primary_response |-> NoPrimary]

\* an exception leaves answer_question
Raises(error, store_calls, scope_then) ==
    [raised |-> TRUE, error |-> error, caught |-> None, store_calls |-> store_calls,
     scope |-> scope_then, result |-> NoResult]

\* return {...}
Returns(store_calls, sql, columns, rows, stream, ctx, scope_then, new_primary) ==
    [raised |-> FALSE, error |-> None, caught |-> None, store_calls |-> store_calls,
     scope |-> scope_then,
     result |-> [sql |-> sql, columns |-> columns, rows |-> rows, stream |-> stream,
                 intent_json |-> ctx.intent,
                 conversation_summary |-> ctx.updated_summary,
                 scope |-> scope_then,
                 resolved_question |-> ctx.resolved_q,
                 primary_response |-> new_primary]]

\* primary_response if is_followup_turn else None
AnchorAlways(ctx) == ctx.a.primary_response

AnchorFor(ctx) == IF ctx.is_followup_turn THEN ctx.a.primary_response ELSE NoPrimary

\* the relevant_history entry of the payloads: scope.get("relevant_history", [])
ScopeHistory(sc) == IF HasKey(sc, "relevant_history") THEN sc.relevant_history ELSE <<>>

STORE_ERROR == "store error"

\* ---- summarize_contract, with an identifier --------------------------------
SummarizePath(ctx, readable_ids) ==
    LET rid == readable_ids[1]
        call == Call(SQL_SUMMARIZE, TRUE, <<rid>>, FALSE)
        texts == Column(ctx.env.result.rows, 2)
        intent2 == [ctx.intent EXCEPT !.readable_ids = readable_ids]
        ctx2 == [ctx EXCEPT !.intent = intent2]
        stream == [fn |-> "stream_contract_summary_from_text",
                   payload |-> [retrieval |-> "ordered_chunks", readable_id |-> rid,
                                question |-> ctx.resolved_q, texts |-> texts]]
    IN  IF ctx.env.fail_call = 1 THEN Raises(STORE_ERROR, <<call>>, ctx.scope)
        ELSE Returns(<<call>>, <<>>, <<>>, <<>>, stream, ctx2, ctx.scope,
                     [type |-> "text", value |-> PyStr("Summary generated for " \o rid),
                      context |-> "contract " \o rid])

\* ---- rag_text_qa -----------------------------------------------------------
NO_CONTRACT_PRIMARY ==
    [type |-> "text", value |-> PyStr("No matching contract found for title keywords"),
     context |-> "title fallback failure"]

\* [w for w in re.findall(r"[a-zA-Z0-9]+", q.lower()) if len(w) >= 3]
TitleWords(q) ==
    CASE q = "how many ndas"  -> <<"how", "many", "ndas">>
      [] q = "list them"      -> <<"list", "them">>
      [] q = "list the ndas"  -> <<"list", "the", "ndas">>
      [] OTHER                -> <<"merged", "question">>

RagPath(ctx) ==
    LET env == ctx.env
        locked == ctx.is_followup_turn /\ Truthy(ctx.scope, "active_contract_id")
                  /\ ctx.intent.readable_ids = <<>>
        ids0 == IF locked THEN <<ctx.scope.active_contract_id>> ELSE ctx.intent.readable_ids
        \* the title fallback: a prefilter query, then the title search
        fallback == ids0 = <<>>
        prefiltered == fallback /\ TitleWords(ctx.resolved_q) # <<>>
        searched == fallback /\ env.title_terms # <<>>
        prefilter == Call(SQL_PREFILTER, TRUE, TitleWords(ctx.resolved_q), FALSE)
        search == Call(SQL_TITLE, TRUE, env.title_terms, FALSE)
        calls0 == IF prefiltered THEN <<prefilter>> ELSE <<>>
        calls1 == IF searched THEN Append(calls0, search) ELSE calls0
        readable_ids == IF searched /\ env.title_match # <<>>
                        THEN <<env.title_match[1]>> ELSE ids0
        is_single_contract == Len(readable_ids) = 1
        rid == IF is_single_contract THEN readable_ids[1] ELSE None
        vec == "qvec"
        query == IF is_single_contract
                 THEN Call(SQL_RAG_ONE, TRUE, <<vec, rid, vec>>, FALSE)
                 ELSE Call(SQL_RAG_ALL, TRUE, <<vec, vec>>, FALSE)
        scope2 == IF is_single_contract
                  THEN SetKey(ctx.scope, "active_contract_id", rid) ELSE ctx.scope
        rows == env.result.rows
        payload == [question |-> ctx.resolved_q,
                    chunks |-> [i \in 1..Len(rows) |->
                                   [readable_id |-> rows[i][1], chunk_id |-> rows[i][2],
                                    text |-> rows[i][3]]],
                    row_count |-> Len(rows)]
        new_primary ==
            [type |-> "text",
             value |-> PyStr(IF is_single_contract THEN "RAG answer for contract " \o rid
                             ELSE "RAG answer for multiple contracts"),
             context |-> IF is_single_contract THEN rid ELSE "corpus",
             example_ids |-> [i \in 1..Len(FirstN(rows, EXAMPLE_IDS)) |-> rows[i][1].s]]
    IN  IF prefiltered /\ env.fail_call = 1
            THEN Raises(STORE_ERROR, calls0, ctx.scope)
        ELSE IF searched /\ env.fail_call = Len(calls1)
            THEN Raises(STORE_ERROR, calls1, ctx.scope)
        ELSE IF readable_ids = <<>>
            THEN Returns(calls1, <<>>, <<>>, <<>>,
                         [fn |-> "iter", payload |-> [text |-> "no matching contract"]],
                         ctx, ctx.scope, NO_CONTRACT_PRIMARY)
        ELSE IF env.fail_call = Len(calls1) + 1
            THEN Raises(STORE_ERROR, Append(calls1, query), scope2)
        ELSE Returns(Append(calls1, query), query.sql, env.result.columns,
                     safe_json(rows),
                     [fn |-> "chat.completions.create", payload |-> payload],
                     ctx, scope2, new_primary)

\* ---- text_mention_count ----------------------------------------------------
CountPath(ctx) ==
    LET env == ctx.env
        op0 == ctx.intent.logic.operator
        op == IF op0 \in {"AND", "OR"} THEN op0 ELSE "AND"
        inc == ctx.intent.terms
        exc == ctx.intent.logic.exclude
        call == Call(SQL_COUNT \o <<op>>, TRUE, inc \o exc, FALSE)
        cols == env.result.columns
        rows == env.result.rows
        has_ids == rows # <<>> /\ Contains(cols, "example_ids")
        idx == IF has_ids THEN CHOOSE i \in 1..Len(cols) : cols[i] = "example_ids" ELSE 0
        example_ids == IF has_ids /\ rows[1][idx].t = "list" THEN rows[1][idx].items ELSE <<>>
        is_numeric == Len(rows) = 1 /\ Len(cols) = 1 /\ IsNumber(rows[1][1])
        numeric_value == IF is_numeric THEN ToFloat(rows[1][1]) ELSE PyNone
        payload == [question |-> ctx.resolved_q, sql |-> call.sql, columns |-> cols,
                    rows_preview |-> safe_json(FirstN(rows, PREVIEW_ROWS)),
                    row_count_returned |-> Len(rows),
                    true_numeric_result |-> numeric_value,
                    intent |-> ctx.intent, scope |-> ctx.scope,
                    relevant_history |-> ScopeHistory(ctx.scope),
                    primary_response |-> AnchorFor(ctx)]
        new_primary == [type |-> IF is_numeric THEN "numeric" ELSE "text",
                        value |-> IF is_numeric THEN numeric_value ELSE PyStr(""),
                        context |-> ctx.resolved_q,
                        example_ids |-> example_ids]
    IN  IF env.fail_call = 1 THEN Raises(STORE_ERROR, <<call>>, ctx.scope)
        ELSE Returns(<<call>>, call.sql, cols, rows,
                     [fn |-> "stream_general_from_payload", payload |-> payload],
                     ctx, ctx.scope, new_primary)

\* ---- text_snippets ---------------------------------------------------------
\* (?is)(t1.{0,win}t2|t2.{0,win}t1)
ProximityPattern(t1, t2, win) ==
    "(?is)(" \o t1 \o ".{0," \o ToString(win) \o "}" \o t2 \o "|"
             \o t2 \o ".{0," \o ToString(win) \o "}" \o t1 \o ")"

SnippetPath(ctx) ==
    LET env == ctx.env
        terms == FirstN(ctx.intent.terms, 2)
        near == ctx.intent.near
        \* near.get("enabled", False) of None: AttributeError
        no_near == Len(terms) >= 2 /\ near = PyNone
        proximity == Len(terms) >= 2 /\ ~no_near /\ near.enabled
        call == IF proximity
                THEN Call(SQL_NEAR, TRUE,
                          <<ProximityPattern(terms[1], terms[2], near.window),
                            ToString(SNIPPET_LIMIT)>>, FALSE)
                ELSE Call(SQL_ILIKE, TRUE,
                          <<IF terms # <<>> THEN terms[1] ELSE "termination",
                            ToString(SNIPPET_LIMIT)>>, FALSE)
        cols == env.result.columns
        rows == env.result.rows
        payload == [question |-> ctx.resolved_q, sql |-> call.sql, columns |-> cols,
                    rows_preview |-> safe_json(FirstN(rows, PREVIEW_ROWS)),
                    intent |-> ctx.intent, scope |-> ctx.scope,
                    relevant_history |-> ScopeHistory(ctx.scope),
                    primary_response |-> AnchorFor(ctx)]
    IN  IF no_near THEN Raises("AttributeError", <<>>, ctx.scope)
        ELSE IF env.fail_call = 1 THEN Raises(STORE_ERROR, <<call>>, ctx.scope)
        ELSE Returns(<<call>>, call.sql, cols, rows,
                     [fn |-> "stream_general_from_payload", payload |-> payload],
                     ctx, ctx.scope,
                     [type |-> "text", value |-> PyStr(ToString(Len(rows)) \o " snippets"),
                      context |-> ctx.resolved_q])

\* ---- the generated-query path (sql_generic, weekly_report, any other intent)
UNBOUND_ERROR == "Generated SQL contains unbound %s placeholders"

\* the except block: the error is reported through the synthesizer
ErrorReturnPropagates(ctx, error, known_sql, store_calls) ==
    Raises(error, store_calls, ctx.scope)

ErrorReturn(ctx, error, known_sql, store_calls) ==
    [Returns(store_calls, known_sql, <<>>, <<>>,
             [fn |-> "stream_general_from_payload",
              payload |-> [question |-> ctx.resolved_q, sql |-> known_sql,
                           error |-> error, intent |-> ctx.intent,
                           primary_response |-> AnchorFor(ctx)]],
             ctx, ctx.scope, ctx.a.primary_response)
     EXCEPT !.caught = error]

\* one section of the weekly bundle, run as store call i of the turn
RunSection(ctx, sec, i) ==
    LET cols == ctx.env.result.columns
        rows == ctx.env.result.rows
        m == _derive_metric(cols, rows)
        money == m.name # None /\ IsNumber(m.value)
                 /\ m.name \in {"value", "total_value", "contract_value"}
        metric_value == IF money THEN PyStr("$" \o ToString(m.value.n)) ELSE m.value
    IN  IF ctx.env.fail_call = i
        THEN [title |-> sec.title, sql |-> sec.sql, error |-> STORE_ERROR]
        ELSE [title |-> sec.title, sql |-> sec.sql, columns |-> cols,
              rows_preview |-> safe_json(FirstN(rows, PREVIEW_ROWS)),
              row_count_returned |-> Len(rows),
              metric |-> IF m.name # None
                         THEN [name |-> m.name, value |-> safe_json_cell(metric_value)]
                         ELSE NoMetric]

WEEKLY_PRIMARY ==
    [type |-> "text", value |-> PyStr("Weekly report generated"), context |-> "weekly report"]

\* the grouped anchor: the first column with a non-blank text, the first with a number
IsLabel(v) == v.t = "str" /\ StripLabel(v.s) # ""

\* the first index of a set of column indexes, 0 when there is none
FirstColumn(hits) ==
    IF hits = {} THEN 0 ELSE CHOOSE ci \in hits : \A cj \in hits : ci <= cj

TextColumn(cols, rows) ==
    FirstColumn({ci \in 1..Len(cols) : \E i \in 1..Len(rows) : IsLabel(rows[i][ci])})

NumberColumn(cols, rows) ==
    FirstColumn({ci \in 1..Len(cols) : \E i \in 1..Len(rows) : IsNumber(rows[i][ci])})

GroupedPrimary(ctx, cols, rows) ==
    LET text_col_idx == TextColumn(cols, rows)
        num_col_idx == NumberColumn(cols, rows)
        cells == IF text_col_idx = 0 THEN <<>>
                 ELSE SelectSeq(Column(rows, text_col_idx), IsLabel)
        labels == [i \in 1..Len(cells) |-> Lower(StripLabel(cells[i].s))]
    IN  IF text_col_idx # 0 /\ num_col_idx # 0 /\ text_col_idx # num_col_idx
           /\ labels # <<>>
        THEN [type |-> "grouped", context |-> ctx.resolved_q,
              group_col |-> cols[text_col_idx], value_col |-> cols[num_col_idx],
              labels |-> FirstN(labels, LABEL_CAP)]
        ELSE NoPrimary

\* the weekly bundle given up at its first failing section
WeeklyPathAbortsOnFailure(ctx, sql, sections) ==
    LET target_sections == IF sections # <<>> THEN sections
                           ELSE <<[title |-> NoTitle, sql |-> sql]>>
        weekly_calls == [i \in 1..Len(target_sections) |->
                            Call(target_sections[i].sql, FALSE, <<>>, TRUE)]
        structured == SortByRank([i \in 1..Len(target_sections) |->
                                     RunSection(ctx, target_sections[i], i)], <<>>)
        payload == [question |-> ctx.resolved_q, report_type |-> "weekly",
                    sections |-> structured, intent |-> ctx.intent, sql |-> sql,
                    primary_response |-> AnchorFor(ctx)]
    IN  IF ctx.env.fail_call \in 1..Len(target_sections)
        THEN ErrorReturn(ctx, STORE_ERROR, sql, FirstN(weekly_calls, ctx.env.fail_call))
        ELSE Returns(weekly_calls, sql, <<>>, <<>>,
                     [fn |-> "stream_summary_from_payload", payload |-> payload],
                     ctx, ctx.scope, WEEKLY_PRIMARY)

\* lines 1417-1487: the weekly bundle; every section is run in its own try,
\* the entries are sorted into the canonical order and handed to the summarizer
WeeklyPath(ctx, sql, sections) ==
    LET target_sections == IF sections # <<>> THEN sections
                           ELSE <<[title |-> NoTitle, sql |-> sql]>>
        weekly_calls == [i \in 1..Len(target_sections) |->
                            Call(target_sections[i].sql, FALSE, <<>>, TRUE)]
        structured == SortByRank([i \in 1..Len(target_sections) |->
                                     RunSection(ctx, target_sections[i], i)], <<>>)
        payload == [question |-> ctx.resolved_q, report_type |-> "weekly",
                    sections |-> structured, intent |-> ctx.intent, sql |-> sql,
                    primary_response |-> AnchorFor(ctx)]
    IN  Returns(weekly_calls, sql, <<>>, <<>>,
                [fn |-> "stream_summary_from_payload", payload |-> payload],
                ctx, ctx.scope, WEEKLY_PRIMARY)

SqlPath(ctx) ==
    LET env == ctx.env
        is_weekly == ctx.intent.intent = "weekly_report"
        sql == extract_sql(env.generated)
        verdict == validate_sql_safe(sql)
        unquoted_count == _count_unquoted_percent_s(sql)
        intent_vendor == ctx.intent.vendor_term
        has_params == unquoted_count > 0
        params == IF has_params THEN [i \in 1..unquoted_count |-> intent_vendor] ELSE <<>>
        sections == _extract_sections(sql)
        \* single statement
        single_sql == IF sections # <<>> THEN sections[1].sql ELSE sql
        call == Call(single_sql, has_params, params, TRUE)
        cols == env.result.columns
        rows == env.result.rows
        single_cell == Len(rows) = 1 /\ Len(cols) = 1
        is_numeric == single_cell /\ IsNumber(rows[1][1])
        numeric_value == IF is_numeric THEN ToFloat(rows[1][1]) ELSE PyNone
        text_singleton_value == IF single_cell /\ ~is_numeric THEN ToStr(rows[1][1])
                                ELSE PyNone
        payload == [question |-> ctx.resolved_q, sql |-> single_sql, columns |-> cols,
                    rows_preview |-> safe_json(FirstN(rows, PREVIEW_ROWS)),
                    row_count_returned |-> Len(rows), has_rows |-> Len(rows) > 0,
                    true_numeric_result |-> numeric_value,
                    text_singleton_value |-> text_singleton_value,
                    intent |-> ctx.intent, scope |-> ctx.scope,
                    relevant_history |-> ScopeHistory(ctx.scope),
                    primary_response |-> AnchorFor(ctx)]
        new_primary == IF is_numeric
                       THEN [type |-> "numeric", value |-> numeric_value,
                             context |-> ctx.resolved_q]
                       ELSE GroupedPrimary(ctx, cols, rows)
    IN  IF verdict # "ok" THEN ErrorReturn(ctx, verdict, sql, <<>>)
        ELSE IF has_params /\ intent_vendor \in {None, ""}
            THEN ErrorReturn(ctx, UNBOUND_ERROR, sql, <<>>)
        ELSE IF is_weekly
            THEN WeeklyPath(ctx, sql, sections)
        ELSE IF env.fail_call = 1 THEN ErrorReturn(ctx, STORE_ERROR, sql, <<call>>)
        ELSE Returns(<<call>>, single_sql, cols, safe_json(rows),
                     [fn |-> "chat.completions.create", payload |-> payload],
                     ctx, ctx.scope,
                     IF new_primary # NoPrimary THEN new_primary
                     ELSE ctx.a.primary_response)

(***************************************************************************)
(* answer_question.  a holds the arguments (question, last_question,       *)
(* conversation_summary, scope, resolved_question, primary_response), env  *)
(* the replies of the completion service and of the store during the call. *)
(***************************************************************************)
\* extra_labels: the lower-cased labels of a grouped anchor
ExtraLabels(pr) ==
    IF pr.type = "grouped"
    THEN LET kept == SelectSeq(pr.labels, LAMBDA lbl : lbl # "")
         IN  [i \in 1..Len(kept) |-> Lower(kept[i])]
    ELSE <<>>

\* lines 963-989: the compressed history, the updated summary, the scope
CompressStage(a, env) ==
    LET scope1 == IF HasKey(a.scope, "relevant_history") THEN a.scope
                  ELSE SetKey(a.scope, "relevant_history", <<>>)
        extra_labels == ExtraLabels(a.primary_response)
        scope2 == IF extra_labels # <<>>
                  THEN SetKey(scope1, "relevant_history",
                              LastN(Dedupe(scope1.relevant_history \o extra_labels),
                                    HISTORY_CAP))
                  ELSE scope1
        hs == history_selector(a.conversation_summary, env.hs)
        new_relevant == hs.relevant_history
        combined_history == IF a.conversation_summary \notin {None, ""}
                            THEN Dedupe(scope2.relevant_history \o new_relevant)
                            ELSE new_relevant
        relevant_history == LastN(combined_history, BULLET_CAP)
        merged_history == Dedupe(scope2.relevant_history \o relevant_history)
    IN  [scope |-> SetKey(scope2, "relevant_history", LastN(merged_history, HISTORY_CAP)),
         relevant_history |-> relevant_history,
         new_relevant |-> new_relevant,
         merged_history |-> merged_history,
         updated_summary |-> hs.updated_summary]

\* lines 1024-1031: the resets, then the updates
MergeScopeUpdatesFirst(sc, rew) ==
    PopKeys(UpdateDict(sc, rew.scope_updates), rew.reset_keys)

MergeScope(sc, rew) == UpdateDict(PopKeys(sc, rew.reset_keys), rew.scope_updates)

\* scope = dict(scope or {}): the caller's dict after the call
CallerScope(scope_in, scope_local) == scope_in

\* the dispatcher: lines 1043-1615
Dispatch(ctx) ==
    LET kind == ctx.intent.intent
        prior_ids == IF HasKey(ctx.a.primary_response, "example_ids")
                     THEN ctx.a.primary_response.example_ids ELSE <<>>
        summarize_ids == IF ctx.intent.readable_ids # <<>> THEN ctx.intent.readable_ids
                         ELSE IF prior_ids # <<>> THEN <<prior_ids[1]>> ELSE <<>>
    IN  IF kind = "summarize_contract" /\ summarize_ids # <<>>
            THEN [branch |-> "summarize_contract", out |-> SummarizePath(ctx, summarize_ids)]
        ELSE IF kind = "rag_text_qa" THEN [branch |-> kind, out |-> RagPath(ctx)]
        ELSE IF kind = "text_mention_count" THEN [branch |-> kind, out |-> CountPath(ctx)]
        ELSE IF kind = "text_snippets" THEN [branch |-> kind, out |-> SnippetPath(ctx)]
        ELSE [branch |-> "sql", out |-> SqlPath(ctx)]

answer_question(a, env) ==
    LET c == CompressStage(a, env)
        first_turn == a.last_question = None
        rewritten == followup_rewriter(a.question, env.rew)
        rew == IF first_turn THEN RewriterFallback(a.question) ELSE rewritten.js
        rewriter_says == ~first_turn /\ rew.is_followup
        resolved_q1 == IF first_turn \/ rew.resolved_question \in {None, ""}
                       THEN a.question ELSE rew.resolved_question
        intent == classify_intent(resolved_q1, env.cls)
        scope2 == MergeScope(c.scope, rew)
        legacy_called == ~rewriter_says /\ a.last_question \notin {None, ""}
        legacy_says == legacy_called /\ is_followup(a.last_question, a.question, env.legacy)
        resolved_q == IF legacy_says
                      THEN merge_followup(a.last_question, a.question, env.merged)
                      ELSE resolved_q1
        ctx == [a |-> a, env |-> env, intent |-> intent, scope |-> scope2,
                is_followup_turn |-> rewriter_says \/ legacy_says,
                resolved_q |-> resolved_q, updated_summary |-> c.updated_summary]
        d == IF ~first_turn /\ rewritten.raised
             THEN [branch |-> None, out |-> Raises("AttributeError", <<>>, c.scope)]
             ELSE Dispatch(ctx)
    IN  [raised |-> d.out.raised, error |-> d.out.error, caught |-> d.out.caught,
         store_calls |-> d.out.store_calls,
         result |-> d.out.result,
         caller_scope |-> CallerScope(a.scope, d.out.scope),
         branch |-> d.branch,
         hs |-> [relevant_history |-> c.new_relevant, updated_summary |-> c.updated_summary],
         rewriter_called |-> ~first_turn,
         rew |-> rew,
         legacy_called |-> ~d.out.raised /\ legacy_called,
         classified_question |-> resolved_q1,
         intent |-> intent,
         is_followup_turn |-> ctx.is_followup_turn,
         relevant_history |-> c.relevant_history]

(***************************************************************************)
(* The replies of the environment during one turn.                         *)
(***************************************************************************)
ManyLabels == 21
ManyBullets == 12

Questions == {"how many ndas", "list them"}

HS_OK ==
    [kind |-> "object", rh_is_list |-> TRUE,
     relevant_history |-> <<"ndas", "last quarter">>, updated_summary |-> "asked about ndas"]
HS_MANY ==
    [kind |-> "object", rh_is_list |-> TRUE,
     relevant_history |-> [i \in 1..ManyBullets |-> "bullet " \o ToString(i)],
     updated_summary |-> "a long conversation"]
HS_PARTIAL ==
    [kind |-> "object", rh_is_list |-> FALSE, relevant_history |-> <<>>,
     updated_summary |-> None]
HS_GARBAGE ==
    [kind |-> "garbage", rh_is_list |-> FALSE, relevant_history |-> <<>>,
     updated_summary |-> None]
HS_NONOBJECT ==
    [kind |-> "nonobject", rh_is_list |-> FALSE, relevant_history |-> <<>>,
     updated_summary |-> None]

HsReplies == {HS_OK, HS_MANY, HS_PARTIAL, HS_GARBAGE, HS_NONOBJECT}

Rewrite(kind, followup, q, updates, resets) ==
    [kind |-> kind, is_followup |-> followup, resolved_question |-> q,
     scope_updates |-> updates, reset_keys |-> resets]

RW_NEW       == Rewrite("object", FALSE, None, EmptyDict, {})
RW_FOLLOW    == Rewrite("object", TRUE, "list the ndas",
                           [timeframe |-> "last quarter", status |-> "active"], {})
RW_RESET     == Rewrite("object", FALSE, None, [vendor |-> "acme"], {"timeframe", "vendor"})
RW_HISTORY   == Rewrite("object", TRUE, "list the ndas",
                        [relevant_history |-> <<"ndas", "ndas">>], {})
RW_FORGET    == Rewrite("object", FALSE, None, EmptyDict,
                        {"relevant_history", "active_contract_id"})
RW_CONTRACT  == Rewrite("object", TRUE, "list the ndas", [active_contract_id |-> "IC-2"], {})
RW_GARBAGE   == Rewrite("garbage", FALSE, None, EmptyDict, {})
RW_NONOBJECT == Rewrite("nonobject", FALSE, None, EmptyDict, {})

RewReplies ==
    {RW_NEW, RW_FOLLOW, RW_RESET, RW_HISTORY, RW_FORGET, RW_CONTRACT, RW_GARBAGE,
     RW_NONOBJECT}

Classified(intent, ids, vendor, terms, near) ==
    [kind |-> "object", intent |-> intent, terms |-> terms, logic |-> DefaultLogic,
     near |-> [enabled |-> near, window |-> 120], readable_ids |-> ids,
     query_text |-> None, vendor_term |-> vendor, notes |-> None,
     missing |-> {}, nulls |-> {}]

CLS_GENERIC == Classified("sql_generic", <<>>, None, <<>>, FALSE)
CLS_GARBAGE == [kind |-> "garbage"]

\* generated query texts
G_PLAIN    == <<"SELECT", " ", "x", ";">>
G_PARAM    == <<"SELECT", " ", "%", "s">>
G_QUOTED   == <<"SELECT", " ", "'", "%", "s", "'">>
G_DROP     == <<"drop", " ", "x">>
G_NOSELECT == <<"x">>
G_BYPASS   == <<"SELECT", " ", "x", ";", " ", "DROP", " ", "x", ";">>
G_TWO      == <<"SELECT", " ", "%", "s", ";", "\n", "select", " ", "%", "s">>

Generated == {G_PLAIN, G_PARAM, G_QUOTED, G_DROP, G_NOSELECT, G_BYPASS, G_TWO}

\* a weekly bundle of two titled sections, the later canonical title first
G_WEEKLY ==
    <<"--", " ", "Work in Progress by Department", "\n", "SELECT", " ", "x", ";", "\n",
      "--", " ", "Active NDAs Created in Last 14 Days", "\n", "SELECT", " ", "y", ";">>

\* results of the store
Result(columns, rows) == [columns |-> columns, rows |-> rows]

R_NUMBER  == Result(<<"count">>, << <<PyInt(106)>> >>)
R_TEXT    == Result(<<"title">>, << <<PyStr("MSA")>> >>)
R_EMPTY   == Result(<<"readable_id">>, <<>>)
R_GROUPED == Result(<<"department", "n">>,
                    << <<PyStr("Legal"), PyDecimal(4)>>, <<PyStr(" Ops "), PyDecimal(2)>> >>)
R_LABELS  == Result(<<"label", "n">>,
                    [i \in 1..ManyLabels |-> <<PyStr("label " \o ToString(i)), PyInt(i)>>])
R_CHUNKS  == Result(<<"readable_id", "chunk_id", "chunk_text", "distance">>,
                    << <<PyStr("IC-1"), PyInt(1), PyStr("text one"), PyFloat(0)>>,
                       <<PyStr("IC-2"), PyInt(1), PyStr("text two"), PyFloat(1)>> >>)
\* one chunk more than the example identifiers kept of an answer
R_MORE_CHUNKS ==
    Result(<<"readable_id", "chunk_id", "chunk_text", "distance">>,
           [i \in 1..(EXAMPLE_IDS + 1) |->
               <<PyStr("IC-" \o ToString(i)), PyInt(1), PyStr("text"), PyFloat(i)>>])
R_COUNT   == Result(<<"contracts_with_term", "example_ids">>,
                    << <<PyInt(3),
                         [t |-> "list", n |-> 0, s |-> "", items |-> <<"IC-1", "IC-2", "IC-5">>]>> >>)

BaseEnv ==
    [hs |-> HS_OK, rew |-> RW_NEW, legacy |-> FALSE, merged |-> "merged question",
     cls |-> CLS_GENERIC, title_terms |-> <<>>, title_match |-> <<>>,
     generated |-> G_PLAIN, result |-> R_NUMBER, fail_call |-> 0, stream |-> "ok",
     render |-> "ok"]

\* the replies that shape the conversation state
ConversationEnvs ==
    {[BaseEnv EXCEPT !.hs = h] : h \in HsReplies}
    \cup {[BaseEnv EXCEPT !.rew = r, !.legacy = l] : r \in RewReplies, l \in BOOLEAN}
    \cup {[BaseEnv EXCEPT !.result = r] : r \in {R_TEXT, R_EMPTY, R_GROUPED, R_LABELS}}
    \cup {[BaseEnv EXCEPT !.stream = "fail"], [BaseEnv EXCEPT !.render = "fail"]}

\* the generated-query path
QueryEnvs ==
    {[BaseEnv EXCEPT !.cls = Classified(i, <<>>, v, <<>>, FALSE), !.generated = g] :
        i \in {"sql_generic", "weekly_report"}, v \in {None, "acme"}, g \in Generated}
    \cup {[BaseEnv EXCEPT !.cls = Classified(i, <<>>, "acme", <<>>, FALSE),
                          !.generated = g, !.fail_call = 1] :
             i \in {"sql_generic", "weekly_report"}, g \in {G_PLAIN, G_TWO}}

\* the text paths
TextEnvs ==
    {[BaseEnv EXCEPT !.cls = Classified("rag_text_qa", ids, None, <<>>, FALSE),
                     !.rew = r, !.title_terms = t[1], !.title_match = t[2],
                     !.result = R_CHUNKS, !.fail_call = f] :
        ids \in {<<>>, <<"IC-1">>}, r \in {RW_NEW, RW_FORGET, RW_CONTRACT},
        t \in {<< <<>>, <<>> >>, << <<"acme">>, <<"IC-7">> >>}, f \in {0, 1}}
    \cup {[BaseEnv EXCEPT !.cls = Classified("rag_text_qa", <<"IC-1", "IC-2">>, None,
                                             <<>>, FALSE),
                          !.result = R_MORE_CHUNKS]}
    \cup {[BaseEnv EXCEPT !.cls = Classified("text_mention_count", <<>>, None,
                                             <<"indemnity">>, FALSE),
                          !.result = R_COUNT, !.fail_call = f] : f \in {0, 1}}
    \cup {[BaseEnv EXCEPT !.cls = Classified("text_snippets", <<>>, None,
                                             <<"indemnity", "cap">>, n),
                          !.result = R_CHUNKS, !.fail_call = f] :
             n \in BOOLEAN, f \in {0, 1}}
    \cup {[BaseEnv EXCEPT !.cls = Classified("text_snippets", <<>>, None, t, TRUE),
                          !.result = R_CHUNKS] :
             t \in {<<>>, <<"indemnity">>, <<"indemnity", "cap", "fee">>}}
    \cup {[BaseEnv EXCEPT !.cls = Classified("summarize_contract", ids, None, <<>>, FALSE),
                          !.rew = r, !.result = R_CHUNKS, !.fail_call = f] :
             ids \in {<<>>, <<"ic-3">>}, r \in {RW_NEW, RW_FOLLOW}, f \in {0, 1}}

\* intents for which answer_question has no branch of its own
OtherIntentEnvs ==
    {[BaseEnv EXCEPT !.cls = Classified(i, <<"IC-1", "IC-2">>, None, <<>>, FALSE)] :
        i \in {"compare_contracts", "semantic_find", "similar_to_contract"}}

\* replies of the classifier that are no well-formed intent: no JSON at all,
\* the empty object, an object with "intent": null, and a text_snippets intent
\* with "near": null
ClassifierEnvs ==
    {[BaseEnv EXCEPT !.cls = CLS_GARBAGE],
     [BaseEnv EXCEPT !.cls = [CLS_GENERIC EXCEPT
                                 !.missing = {"intent", "terms", "logic", "near",
                                              "readable_ids", "query_text",
                                              "vendor_term", "notes"}]],
     [BaseEnv EXCEPT !.cls = [CLS_GENERIC EXCEPT !.nulls = {"intent"}]],
     [BaseEnv EXCEPT !.cls = [Classified("text_snippets", <<>>, None,
                                         <<"indemnity", "cap">>, FALSE)
                                 EXCEPT !.nulls = {"near"}],
                     !.result = R_CHUNKS]}

\* questions about clauses, reached through the resolver or the legacy merge
CLAUSE_QUESTION == "which contracts have an indemnity clause"

ClauseEnvs ==
    {[BaseEnv EXCEPT !.rew = Rewrite("object", TRUE, CLAUSE_QUESTION, EmptyDict, {}),
                     !.cls = Classified("rag_text_qa", <<"IC-1">>, None, <<>>, FALSE),
                     !.result = R_CHUNKS],
     [BaseEnv EXCEPT !.legacy = TRUE, !.merged = CLAUSE_QUESTION,
                     !.cls = Classified("rag_text_qa", <<"IC-1">>, None, <<>>, FALSE),
                     !.result = R_CHUNKS]}

\* a weekly bundle of four sections: one without a title, two with canonical
\* titles (the later one first), one with a title outside the canonical order
G_REPORT ==
    <<"SELECT", " ", "a", ";", "\n",
      "--", " ", "Work in Progress by Department", "\n", "SELECT", " ", "x", ";", "\n",
      "--", " ", "Active NDAs Created in Last 14 Days", "\n", "SELECT", " ", "y", ";", "\n",
      "--", " ", "Other", "\n", "SELECT", " ", "z", ";">>

\* the weekly bundle with no failing section, or its first or second failing,
\* and the bundle of four sections
WeeklyEnvs ==
    {[BaseEnv EXCEPT !.cls = Classified("weekly_report", <<>>, None, <<>>, FALSE),
                     !.generated = G_WEEKLY, !.fail_call = f] : f \in 0..2}
    \cup {[BaseEnv EXCEPT !.cls = Classified("weekly_report", <<>>, None, <<>>, FALSE),
                          !.generated = G_REPORT]}

Envs ==
    ConversationEnvs \cup QueryEnvs \cup TextEnvs \cup OtherIntentEnvs \cup ClauseEnvs
        \cup WeeklyEnvs \cup ClassifierEnvs

(***************************************************************************)
(* The chat front-end (src/app.py): one turn of the session.               *)
(***************************************************************************)
ANSWER == "answer"
ERROR == "Error"

\* the content of the last user entry of the history, or None
last_user_question ==
    LET users == SelectSeq(chat_history, LAMBDA m : m.role = "user")
    IN  IF users = <<>> THEN None ELSE users[Len(users)].content

\* the questions submitted so far
Turns == Len(SelectSeq(chat_history, LAMBDA m : m.role = "user"))

\* what the front-end does with the outcome out of answer_question(a, env)
\* the state persisted as soon as answer_question returned, before the stream
\* is consumed
PersistBeforeStream(question, a, env, out) ==
    LET ok == ~out.raised /\ env.stream = "ok"
        render_failed == ok /\ env.render = "fail" /\ out.result.rows # <<>>
    IN  /\ chat_history' = chat_history
              \o << [role |-> "user", content |-> question] >>
              \o (IF ok THEN << [role |-> "assistant", content |-> ANSWER] >> ELSE <<>>)
              \o (IF ~ok \/ render_failed
                  THEN << [role |-> "assistant", content |-> ERROR] >> ELSE <<>>)
        /\ conversation_summary' =
              IF ~out.raised THEN out.result.conversation_summary ELSE conversation_summary
        /\ scope' = IF ~out.raised THEN out.result.scope ELSE out.caller_scope
        /\ resolved_question' =
              IF ~out.raised THEN out.result.resolved_question ELSE resolved_question
        /\ primary_response' =
              IF ~out.raised THEN out.result.primary_response ELSE primary_response
        /\ turn' = [ran |-> TRUE, a |-> a, env |-> env, out |-> out]

Persist(question, a, env, out) ==
    LET ok == ~out.raised /\ env.stream = "ok"
        \* the table of a result with rows cannot be displayed: the except
        \* block runs after the answer was appended and the state persisted
        render_failed == ok /\ env.render = "fail" /\ out.result.rows # <<>>
    IN  /\ chat_history' = chat_history
              \o << [role |-> "user", content |-> question] >>
              \o (IF ok THEN << [role |-> "assistant", content |-> ANSWER] >> ELSE <<>>)
              \o (IF ~ok \/ render_failed
                  THEN << [role |-> "assistant", content |-> ERROR] >> ELSE <<>>)
        /\ conversation_summary' =
              IF ok THEN out.result.conversation_summary ELSE conversation_summary
        /\ scope' = IF ok THEN out.result.scope ELSE out.caller_scope
        /\ resolved_question' =
              IF ok THEN out.result.resolved_question ELSE resolved_question
        /\ primary_response' =
              IF ok THEN out.result.primary_response ELSE primary_response
        /\ turn' = [ran |-> TRUE, a |-> a, env |-> env, out |-> out]

ChatTurn(question, env) ==
    LET a == [question |-> question, last_question |-> last_user_question,
              conversation_summary |-> conversation_summary, scope |-> scope,
              resolved_question |-> resolved_question,
              primary_response |-> primary_response]
    IN  /\ ~turn.ran
        /\ Turns < MaxTurns
        /\ \E out \in {answer_question(a, env)} : Persist(question, a, env, out)
        /\ UNCHANGED sql_vars
        /\ UNCHANGED <<metric_result, metric>>

Turn == \E question \in Questions, env \in Envs : ChatTurn(question, env)

\* the script run ends: its local variables are gone, the session state stays
EndRun ==
    /\ turn.ran
    /\ turn' = [ran |-> FALSE]
    /\ UNCHANGED <<chat_history, conversation_summary, scope, resolved_question,
                   primary_response>>
    /\ UNCHANGED sql_vars
    /\ UNCHANGED <<metric_result, metric>>

SessionInit ==
    /\ chat_history = <<>>
    /\ conversation_summary = None
    /\ scope = EmptyDict
    /\ resolved_question = None
    /\ primary_response = NoPrimary
    /\ turn = [ran |-> FALSE]

Init ==
    /\ SessionInit
    /\ sql_text = <<>>
    /\ sql_verdict = Pending
    /\ sql_count = -1
    /\ sql_sections = Unsplit
    /\ metric_result = [columns |-> <<>>, rows |-> <<>>]
    /\ metric = NotDerived

Next == Turn \/ EndRun

Spec == Init /\ [][Next]_vars

InitSql ==
    /\ SessionInit
    /\ sql_text \in SqlTexts
    /\ sql_verdict = Pending
    /\ sql_count = -1
    /\ sql_sections = Unsplit
    /\ metric_result = [columns |-> <<>>, rows |-> <<>>]
    /\ metric = NotDerived

NextSql == Validate \/ Count \/ Split

SpecSql == InitSql /\ [][NextSql]_vars

InitMetric ==
    /\ SessionInit
    /\ sql_text = <<>>
    /\ sql_verdict = Pending
    /\ sql_count = -1
    /\ sql_sections = Unsplit
    /\ metric_result \in MetricResults
    /\ metric = NotDerived

SpecMetric == InitMetric /\ [][Derive]_vars

(***************************************************************************)
(* Properties of the validator and the placeholder counter (SpecSql).      *)
(***************************************************************************)
\* a prohibited verb stands as a token at lexeme i, in any letter case
ProhibitedAt(text, i) ==
    \E verb \in PROHIBITED_VERBS : WordAt(text, i, verb)

HasProhibitedToken(text) == \E i \in 1..Len(text) : ProhibitedAt(text, i)

\* C1: whenever validate_sql_safe returns without error, the query text
\* contains no prohibited verb token anywhere, in any letter case.
C1_ValidatedHasNoMutatingVerb ==
    sql_verdict = "ok" => ~HasProhibitedToken(sql_text)

\* a %s starts at lexeme p
PlaceholderAt(text, p) ==
    /\ text[p] = "%"
    /\ p + 1 <= Len(text)
    /\ StartsWithLowerS(text[p + 1])

\* lexeme p lies inside a single-quoted literal: an odd number of quotes
\* precedes it (a doubled quote inside a literal closes and reopens it)
InsideLiteral(text, p) ==
    Cardinality({j \in 1..(p - 1) : text[j] = "'"}) % 2 = 1

UnquotedPlaceholders(text) ==
    {p \in 1..Len(text) : PlaceholderAt(text, p) /\ ~InsideLiteral(text, p)}

\* SELECT * FROM t WHERE name = 'it''s %s'
QuoteExample ==
    <<"SELECT", " ", "*", " ", "FROM", " ", "t", " ", "WHERE", " ", "name", " ", "=", " ",
      "'", "it", "'", "'", "s", " ", "%", "s", "'">>

\* C3: the counter counts exactly the %s outside single-quoted literals, a
\* doubled quote inside a literal being an escaped quote; the example gives 0.
C3_CountsExactlyUnquoted ==
    /\ sql_count # -1 => sql_count = Cardinality(UnquotedPlaceholders(sql_text))
    /\ _count_unquoted_percent_s(QuoteExample) = 0

\* a literal with an escaped quote and a %s inside it has been counted as 0
C3_Witness ==
    /\ sql_text = <<"'", "'", "'", "%", "s", "'">>
    /\ sql_count = 0

(***************************************************************************)
(* Properties of a turn (Spec).                                            *)
(***************************************************************************)
Ran == turn.ran
Returned == turn.ran /\ ~turn.out.raised

\* the store calls of the turn that carry a generated statement
GeneratedCalls ==
    SelectSeq(turn.out.store_calls, LAMBDA c : c.generated)

\* C2: every generated statement submitted to the store has no unquoted
\* placeholder, or comes with as many parameters as it has unquoted placeholders.
C2_NoUnboundPlaceholder ==
    Ran => \A i \in 1..Len(GeneratedCalls) :
              LET c == GeneratedCalls[i]
                  k == _count_unquoted_percent_s(c.sql)
              IN  k = 0 \/ (c.bound /\ Len(c.params) = k)

\* the generated query of the turn, as ask_for_sql returns it
GeneratedSql == extract_sql(turn.env.generated)

\* the generated query fails validation or cannot be bound
RejectedOrUnbindable ==
    /\ Ran
    /\ turn.out.branch = "sql"
    /\ \/ validate_sql_safe(GeneratedSql) # "ok"
       \/ /\ _count_unquoted_percent_s(GeneratedSql) > 0
          /\ turn.out.intent.vendor_term \in {None, ""}

IsErrorPayload(stream) ==
    /\ stream.fn = "stream_general_from_payload"
    /\ "error" \in DOMAIN stream.payload

\* C4: a generated query that fails validation or binding is never submitted,
\* answer_question does not raise and returns empty columns and rows with an
\* error-payload stream.
C4_RejectedQueryIsReported ==
    RejectedOrUnbindable =>
        /\ ~turn.out.raised
        /\ GeneratedCalls = <<>>
        /\ turn.out.result.columns = <<>>
        /\ turn.out.result.rows = <<>>
        /\ IsErrorPayload(turn.out.result.stream)

C4_Witness ==
    /\ RejectedOrUnbindable
    /\ validate_sql_safe(GeneratedSql) = "ok"
    /\ turn.out.result.stream.payload.error = UNBOUND_ERROR
    /\ Len(chat_history) = 4

\* C5: a turn that starts with no prior resolved question does not invoke the
\* resolver, is not a follow-up and returns the raw text as resolved_question.
C5_NoResolvedQuestionSkipsResolver ==
    (Ran /\ turn.a.resolved_question = None) =>
        /\ ~turn.out.rewriter_called
        /\ ~turn.out.is_followup_turn
        /\ ~turn.out.raised => turn.out.result.resolved_question = turn.a.question

\* the scope as the compressor stage leaves it, before the resolver's deltas
ScopeBeforeResolver == CompressStage(turn.a, turn.env).scope

\* C6: a malformed resolver reply is the fallback: no exception, no follow-up,
\* the raw text as resolved question, no scope key added or removed.
C6_MalformedResolverFallsBack ==
    (Ran /\ turn.out.rewriter_called /\ turn.env.rew.kind # "object") =>
        /\ ~turn.out.raised
        /\ ~turn.out.is_followup_turn
        /\ turn.out.result.resolved_question = turn.a.question
        /\ DOMAIN turn.out.result.scope \ {"active_contract_id"}
             = DOMAIN ScopeBeforeResolver \ {"active_contract_id"}

\* C7: on a reply that is no well-formed object the compressor returns no
\* bullets and the prior summary, and the summary returned and persisted is
\* the summary passed in.
C7_MalformedCompressorKeepsSummary ==
    (Ran /\ turn.env.hs.kind # "object") =>
        /\ turn.out.hs = [relevant_history |-> <<>>,
                          updated_summary |-> turn.a.conversation_summary]
        /\ ~turn.out.raised =>
              turn.out.result.conversation_summary = turn.a.conversation_summary
        /\ conversation_summary = turn.a.conversation_summary

C7_Witness ==
    /\ Returned
    /\ turn.env.hs.kind = "garbage"
    /\ turn.a.conversation_summary = "asked about ndas"
    /\ turn.env.stream = "ok"
    /\ conversation_summary = "asked about ndas"

NoDuplicates(seq) == \A i, j \in 1..Len(seq) : seq[i] = seq[j] => i = j

\* C8: the relevant_history of the returned scope has at most 20 entries and
\* no duplicate.
C8_HistoryBoundedAndDistinct ==
    (Returned /\ HasKey(turn.out.result.scope, "relevant_history")) =>
        /\ Len(turn.out.result.scope.relevant_history) <= HISTORY_CAP
        /\ NoDuplicates(turn.out.result.scope.relevant_history)
        /\ turn.out.result.scope.relevant_history
             = LastN(CompressStage(turn.a, turn.env).merged_history, HISTORY_CAP)

\* the resolver's deltas as the turn used them
Updates == turn.out.rew.scope_updates
Resets == turn.out.rew.reset_keys
ScopeIn == turn.a.scope
ScopeOut == turn.out.result.scope

HoldsUpdate(k) == HasKey(ScopeOut, k) /\ ScopeOut[k] = Updates[k]
IsReset(k) == k \in Resets \ DOMAIN Updates
Untouched == DOMAIN ScopeIn \ (DOMAIN Updates \cup Resets
                                \cup {"relevant_history", "active_contract_id"})
KeepsValue(k) == HasKey(ScopeOut, k) /\ ScopeOut[k] = ScopeIn[k]

\* a RagTextQA turn whose nearest-neighbour query is scoped to one contract
SingleContractCalls ==
    SelectSeq(turn.out.store_calls, LAMBDA c : c.sql = SQL_RAG_ONE)
ResolvedOneContract ==
    turn.out.branch = "rag_text_qa" /\ SingleContractCalls # <<>>
ResolvedContract == SingleContractCalls[1].params[2]

\* C9 as stated: updates hold, also for a key that is reset; resets that are
\* not updates are absent; the other filter keys keep their value; the
\* caller's scope is not mutated.
C9_ScopeTransition_AsStated ==
    Returned =>
        /\ \A k \in DOMAIN Updates : HoldsUpdate(k)
        /\ \A k \in Resets : IsReset(k) => ~HasKey(ScopeOut, k)
        /\ \A k \in Untouched : KeepsValue(k)
        /\ turn.out.caller_scope = ScopeIn

\* C9: as stated for every key but active_contract_id on a RagTextQA turn
\* that resolved exactly one contract: there active_contract_id holds that
\* contract's identifier, whatever the resolver's updates and resets say.
C9_ScopeTransition ==
    Returned =>
        LET pinned == IF ResolvedOneContract THEN {"active_contract_id"} ELSE {}
        IN  /\ \A k \in DOMAIN Updates \ pinned : HoldsUpdate(k)
            /\ \A k \in Resets \ pinned : IsReset(k) => ~HasKey(ScopeOut, k)
            /\ \A k \in pinned : HasKey(ScopeOut, k) /\ ScopeOut[k] = ResolvedContract
            /\ \A k \in Untouched : KeepsValue(k)
            /\ turn.out.caller_scope = ScopeIn

\* a turn that resets timeframe and vendor, updates vendor, and leaves status
C9_Witness ==
    /\ Returned
    /\ turn.out.rewriter_called
    /\ turn.env.rew = RW_RESET
    /\ HasKey(ScopeIn, "timeframe") /\ HasKey(ScopeIn, "status")
    /\ ~HasKey(ScopeOut, "timeframe")
    /\ ScopeOut.vendor = "acme"
    /\ ScopeOut.status = "active"

\* the nearest-neighbour queries of the turn
RetrievalCalls ==
    SelectSeq(turn.out.store_calls, LAMBDA c : c.sql \in {SQL_RAG_ONE, SQL_RAG_ALL})

\* the turn ended in the query path's error handler, or is a RagTextQA turn
\* for which no contract could be resolved
ErrorOrAmbiguousTurn ==
    /\ Returned
    /\ \/ turn.out.branch = "sql" /\ turn.out.caught # None
       \/ turn.out.branch = "rag_text_qa" /\ RetrievalCalls = <<>>

\* C10: on an error or ambiguous turn the primary_response returned is the
\* primary_response passed in.
C10_AnchorKeptOnErrorTurn ==
    ErrorOrAmbiguousTurn =>
        turn.out.result.primary_response = turn.a.primary_response

(***************************************************************************)
(* Properties of the dispatcher branches (Spec).                           *)
(***************************************************************************)
\* the turn ran a generated query to its end on the GenericQuery branch
GenericQuerySucceeded ==
    /\ Returned
    /\ turn.out.branch = "sql"
    /\ turn.out.intent.intent = "sql_generic"
    /\ turn.out.caught = None

ResultColumns == turn.env.result.columns
ResultRows == turn.env.result.rows

SingleCell == Len(ResultRows) = 1 /\ Len(ResultColumns) = 1
SingleNumericCell == SingleCell /\ IsNumber(ResultRows[1][1])

\* some column holds a text and another column holds a number
TextAndNumberColumns ==
    \E ci, cj \in 1..Len(ResultColumns) :
        /\ ci # cj
        /\ \E i \in 1..Len(ResultRows) : IsLabel(ResultRows[i][ci])
        /\ \E i \in 1..Len(ResultRows) : IsNumber(ResultRows[i][cj])

\* C11: after a successful GenericQuery turn the returned primary_response
\* follows from the result shape alone: Numeric with the cell's value for a
\* single numeric cell, Grouped for a text column and a numeric column, Text
\* in every other case.
C11_AnchorFollowsResultShape ==
    GenericQuerySucceeded =>
        LET pr == turn.out.result.primary_response
        IN  IF SingleNumericCell
                THEN pr.type = "numeric" /\ pr.value = ToFloat(ResultRows[1][1])
            ELSE IF TextAndNumberColumns
                THEN /\ pr.type = "grouped"
                     /\ {"group_col", "value_col", "labels"} \subseteq DOMAIN pr
            ELSE pr.type = "text"

\* the payload handed to the synthesizer on the turn
Payload == turn.out.result.stream.payload

\* C12: the synthesizer's payload carries the prior primary_response only on
\* a follow-up turn; on any other turn its primary_response is absent or None.
C12_AnchorOnlyOnFollowUp ==
    Returned =>
        /\ ~turn.out.is_followup_turn =>
              (HasKey(Payload, "primary_response") => Payload.primary_response = NoPrimary)
        /\ HasKey(Payload, "primary_response") =>
              Payload.primary_response \in {NoPrimary, turn.a.primary_response}

\* a turn that is no follow-up, with an anchor left by an earlier turn
C12_Witness ==
    /\ Returned
    /\ ~turn.out.is_followup_turn
    /\ turn.a.primary_response # NoPrimary
    /\ HasKey(Payload, "primary_response")
    /\ Payload.primary_response = NoPrimary

\* C13: when the resolved question the turn executes and returns contains the
\* word clause, the intent dispatched on and returned is sql_generic.
C13_ClauseForcesGenericQuery ==
    (Returned /\ HasClause(turn.out.result.resolved_question)) =>
        /\ turn.out.intent.intent = "sql_generic"
        /\ turn.out.result.intent_json.intent = "sql_generic"
        /\ turn.out.branch = "sql"

\* the identifiers of the form IC-<digits> that occur in the model
CanonicalIds == {"IC-1", "IC-2", "IC-3", "IC-4", "IC-5", "IC-7"}

\* C14: every identifier in the readable_ids of the returned intent has the
\* canonical form and is one of the identifiers the local pattern match finds
\* in the resolved question.
C14_IdsComeFromTheQuestion ==
    Returned =>
        LET ids == turn.out.result.intent_json.readable_ids
        IN  \A i \in 1..Len(ids) :
                /\ ids[i] \in CanonicalIds
                /\ Contains(IdsIn(turn.out.result.resolved_question), ids[i])

\* the retrievals of a contract's ordered text chunks on the turn
ChunkCalls ==
    SelectSeq(turn.out.store_calls, LAMBDA c : c.sql = SQL_SUMMARIZE)

\* C15: one strategy per intent: a generated query is submitted only for
\* sql_generic and weekly_report; compare_contracts retrieves the chunks of
\* its identifiers; semantic_find and similar_to_contract issue a
\* nearest-neighbour query.
C15_OneStrategyPerIntent ==
    Ran =>
        LET kind == turn.out.intent.intent
        IN  /\ (turn.out.branch = "sql" \/ GeneratedCalls # <<>>)
                  => kind \in {"sql_generic", "weekly_report"}
            /\ (~turn.out.raised /\ kind = "compare_contracts") => ChunkCalls # <<>>
            /\ (~turn.out.raised /\ kind \in {"semantic_find", "similar_to_contract"})
                  => RetrievalCalls # <<>>

\* a store call of the turn failed
StoreFailed == Ran /\ turn.env.fail_call \in 1..Len(turn.out.store_calls)

ResultKeys ==
    {"sql", "columns", "rows", "stream", "intent_json", "conversation_summary", "scope",
     "resolved_question", "primary_response"}

\* C16: a store failure in any dispatcher branch gives an error-payload
\* answer: answer_question does not raise and returns a complete result.
C16_StoreFailureDegrades ==
    StoreFailed =>
        /\ ~turn.out.raised
        /\ DOMAIN turn.out.result = ResultKeys

(***************************************************************************)
(* Properties of the chat history (Spec).                                  *)
(***************************************************************************)
\* C17: every submitted question adds one user entry followed by one assistant
\* entry, so the history alternates user, assistant and has twice as many
\* entries as questions were submitted.
C17_HistoryAlternates ==
    /\ Len(chat_history) = 2 * Turns
    /\ \A i \in 1..Len(chat_history) :
          chat_history[i].role = IF i % 2 = 1 THEN "user" ELSE "assistant"

(***************************************************************************)
(* Properties of the statements submitted to the store.                    *)
(***************************************************************************)
\* the pieces of a text between its terminators, white space stripped, blank
\* pieces left out
RECURSIVE PiecesFrom(_, _, _)
PiecesFrom(text, piece, acc) ==
    LET done == IF Strip(piece) = <<>> THEN acc ELSE Append(acc, Strip(piece))
    IN  IF text = <<>> THEN done
        ELSE IF Head(text) = ";" THEN PiecesFrom(Tail(text), <<>>, done)
        ELSE PiecesFrom(Tail(text), Append(piece, Head(text)), acc)

StatementsOf(text) == PiecesFrom(text, <<>>, <<>>)

ReadStatementsOf(text) == SelectSeq(StatementsOf(text), HasSelect)

\* the turn went down the generated-query path with intent sql_generic
GenericQueryTurn ==
    Ran /\ turn.out.branch = "sql" /\ turn.out.intent.intent = "sql_generic"

\* C18: on a GenericQuery turn at most one statement is submitted to the
\* store: of several generated statements only the first read statement.
C18_OneStatementSubmitted ==
    GenericQueryTurn =>
        /\ Len(GeneratedCalls) <= 1
        /\ \A i \in 1..Len(GeneratedCalls) :
              /\ Len(StatementsOf(GeneratedCalls[i].sql)) = 1
              /\ GeneratedCalls[i].sql = ReadStatementsOf(GeneratedSql)[1]

(***************************************************************************)
(* Properties of the section splitter (SpecSql).                           *)
(***************************************************************************)
\* the text without its comments: a comment runs from -- to the end of its line
RECURSIVE StripComments(_, _)
StripComments(text, in_comment) ==
    IF text = <<>> THEN <<>>
    ELSE IF Head(text) = "\n" THEN <<"\n">> \o StripComments(Tail(text), FALSE)
    ELSE IF in_comment \/ Head(text) = "--" THEN StripComments(Tail(text), TRUE)
    ELSE <<Head(text)>> \o StripComments(Tail(text), FALSE)

\* the read statements of a block, each ended at its terminator
BlockReadStatements(text) == ReadStatementsOf(StripComments(text, FALSE))

\* -- A / SELECT x; / -- B / SELECT y;
TitledBlock ==
    <<"--", " ", "A", "\n", "SELECT", " ", "x", ";", "\n",
      "--", " ", "B", "\n", "SELECT", " ", "y", ";">>

\* C19: the splitter ends each statement at its terminator and yields one
\* section per read statement, in order, titled by the nearest preceding
\* comment line; a statement without a read verb is in no section.
C19_OneSectionPerReadStatement ==
    /\ sql_sections.done =>
          /\ Len(sql_sections.sections) = Len(BlockReadStatements(sql_text))
          /\ \A i \in 1..Len(sql_sections.sections) :
                StatementsOf(StripComments(sql_sections.sections[i].sql, FALSE))
                    = <<BlockReadStatements(sql_text)[i]>>
    /\ LET out == _extract_sections(TitledBlock)
       IN  Len(out) = 2 /\ out[1].title = <<"A">> /\ out[2].title = <<"B">>

(***************************************************************************)
(* Properties of the weekly bundle (Spec).                                 *)
(***************************************************************************)
\* a weekly turn whose generated bundle passed validation and binding
WeeklyBundleRun ==
    /\ Ran
    /\ turn.out.branch = "sql"
    /\ turn.out.intent.intent = "weekly_report"
    /\ validate_sql_safe(GeneratedSql) = "ok"
    /\ _count_unquoted_percent_s(GeneratedSql) > 0
          => turn.out.intent.vendor_term \notin {None, ""}

\* the sections of the bundle, the whole text when the splitter finds none
BundleSections ==
    LET sections == _extract_sections(GeneratedSql)
    IN  IF sections # <<>> THEN sections ELSE <<[title |-> NoTitle, sql |-> GeneratedSql]>>

\* the entry carries the results of its section
HasResults(entry) ==
    DOMAIN entry = {"title", "sql", "columns", "rows_preview", "row_count_returned", "metric"}

\* the entry carries the error of its section
HasError(entry) == DOMAIN entry = {"title", "sql", "error"}

\* C20: on a weekly turn every section of the bundle is submitted to the store
\* on its own and has exactly one entry in the synthesizer's payload, with its
\* results or with its own error; a failing section stops no other section
\* and the turn is no error turn.
C20_SectionsRunIndependently ==
    WeeklyBundleRun =>
        LET n == Len(BundleSections)
        IN  /\ ~turn.out.raised
            /\ turn.out.caught = None
            /\ Len(GeneratedCalls) = n
            /\ \A i \in 1..n : GeneratedCalls[i].sql = BundleSections[i].sql
            /\ Len(Payload.sections) = n
            /\ \E p \in Permutations(1..n) :
                  \A i \in 1..n :
                      LET entry == Payload.sections[p[i]]
                      IN  /\ entry.title = BundleSections[i].title
                          /\ entry.sql = BundleSections[i].sql
                          /\ IF turn.env.fail_call = i THEN HasError(entry)
                             ELSE HasResults(entry)

\* the first section of a two-section bundle failed, the second has results,
\* and the entries stand in the canonical order of their titles
C20_Witness ==
    /\ WeeklyBundleRun
    /\ Len(BundleSections) = 2
    /\ turn.env.fail_call = 1
    /\ turn.out.caught = None
    /\ Len(GeneratedCalls) = 2
    /\ Payload.sections[1].title = BundleSections[2].title
    /\ HasResults(Payload.sections[1])
    /\ Payload.sections[2].title = BundleSections[1].title
    /\ HasError(Payload.sections[2])

\* the rank of a section's title in the canonical sequence of eleven titles
RankOf(sec) == CanonicalRank(sec.title)

RagTurn == Returned /\ turn.out.branch = "rag_text_qa"

\* the nearest-neighbour queries of the turn
NeighbourCalls ==
    SelectSeq(turn.out.store_calls, LAMBDA c : c.sql \in {SQL_RAG_ONE, SQL_RAG_ALL})

\* C22: a rag_text_qa turn always issues one nearest-neighbour query for the
\* embedded resolved question, scoped to the identifier when exactly one
\* contract is resolved and corpus-wide otherwise, and its new
\* primary_response records at most five example identifiers.
C22_AlwaysNearestNeighbour ==
    RagTurn =>
        /\ Len(NeighbourCalls) = 1
        /\ NeighbourCalls[1].sql = SQL_RAG_ONE => Len(NeighbourCalls[1].params) = 3
        /\ NeighbourCalls[1].sql = SQL_RAG_ALL => Len(NeighbourCalls[1].params) = 2
        /\ HasKey(turn.out.result.primary_response, "example_ids")
        /\ Len(turn.out.result.primary_response.example_ids) <= EXAMPLE_IDS

\* a turn of the text_snippets branch
SnippetTurn ==
    Ran /\ turn.out.branch = "text_snippets" /\ turn.out.store_calls # <<>>

\* the intent has exactly two terms and proximity enabled
TwoTermsNear ==
    /\ Len(turn.out.intent.terms) = 2
    /\ turn.out.intent.near # PyNone
    /\ turn.out.intent.near.enabled

\* C23: a text_snippets turn uses the bounded-window regex, either ordering of
\* the two terms, exactly when the intent has exactly two terms and proximity
\* enabled, and a single-term substring predicate in every other case; the
\* query is limited to 10 passages.
C23_ProximityOnlyForTwoTerms ==
    SnippetTurn =>
        LET call == turn.out.store_calls[1]
            terms == turn.out.intent.terms
        IN  /\ Len(turn.out.store_calls) = 1
            /\ call.params[2] = ToString(SNIPPET_LIMIT)
            /\ SNIPPET_LIMIT = 10
            /\ TwoTermsNear =>
                  /\ call.sql = SQL_NEAR
                  /\ call.params[1]
                        = ProximityPattern(terms[1], terms[2], turn.out.intent.near.window)
            /\ ~TwoTermsNear =>
                  /\ call.sql = SQL_ILIKE
                  /\ call.params[1] = IF terms # <<>> THEN terms[1] ELSE "termination"

(***************************************************************************)
(* Properties of the metric deriver (SpecMetric).                          *)
(***************************************************************************)
\* a number, or a text that reads as a number
NumericCell(v) ==
    v.t \in {"int", "float", "Decimal"} \/ (v.t = "str" /\ IsNumericText(v.s))

\* the columns of the only row that hold a numeric cell
NumericColumns ==
    IF Len(metric_result.rows) = 1
    THEN {ci \in 1..Len(metric_result.columns) : NumericCell(metric_result.rows[1][ci])}
    ELSE {}

\* C24: for a result of exactly one row the metric is (column name, value) of
\* the leftmost column whose value is numeric or numeric-looking text; for a
\* result of no row, of several rows or without a numeric column there is no
\* metric.
C24_MetricOfSingleRow ==
    metric.derived =>
        IF NumericColumns # {}
        THEN LET ci == CHOOSE c \in NumericColumns : \A d \in NumericColumns : c <= d
             IN  metric.value = [name |-> metric_result.columns[ci],
                                 value |-> metric_result.rows[1][ci]]
        ELSE metric.value = NoMetric

(***************************************************************************)
(* Properties of the conversation state across a turn (Spec).              *)
(***************************************************************************)
\* a turn past the first one that the resolver marked as no follow-up
NewTopicTurn ==
    /\ Returned
    /\ turn.out.rewriter_called
    /\ ~turn.out.rew.is_followup

\* the filter keys of the scope passed in
PriorFilterKeys == DOMAIN ScopeIn \ {"relevant_history", "active_contract_id"}

\* C25: on a NEW_TOPIC turn every filter key of the prior scope that the
\* resolver did not carry over in scope_updates is absent from the returned
\* scope.
C25_NewTopicDropsFilters ==
    NewTopicTurn =>
        \A k \in PriorFilterKeys \ DOMAIN Updates : ~HasKey(ScopeOut, k)

(***************************************************************************)
(* Properties of the intent classification (Spec).                         *)
(***************************************************************************)
\* the turn reached the classification and the dispatcher
Classifying == Ran /\ turn.out.branch # None

\* the classifier's reply gives no usable value for the field: it is no JSON
\* object, or the field is absent or null
Malformed(field) ==
    \/ turn.env.cls.kind # "object"
    \/ field \in turn.env.cls.missing \cup turn.env.cls.nulls

\* C26: whatever in the classifier's reply is malformed is default-filled in
\* the intent classify_intent returns (intent sql_generic, terms [], logic
\* {AND, []}, near {false, 120}, readable_ids [], query_text, vendor_term and
\* notes None), and a reply without a usable intent is dispatched as
\* GenericQuery.
C26_MalformedReplyDefaultFilled ==
    Classifying =>
        LET intent == turn.out.intent
        IN  /\ Malformed("intent") =>
                  intent.intent = "sql_generic" /\ turn.out.branch = "sql"
            /\ Malformed("terms") => intent.terms = <<>>
            /\ Malformed("logic") => intent.logic = DefaultLogic
            /\ Malformed("near") => intent.near = DefaultNear
            /\ Malformed("readable_ids") => intent.readable_ids = <<>>
            /\ Malformed("query_text") => intent.query_text = None
            /\ Malformed("vendor_term") => intent.vendor_term = None
            /\ Malformed("notes") => intent.notes = None

\* the follow-up flag in force when the intent was classified
FlagAtClassification == turn.out.rewriter_called /\ turn.out.rew.is_followup

\* C27: within a turn the resolved question does not change after the intent
\* classification: the intent dispatched on is the classification of the
\* resolved question that is sent to the synthesizer and returned, and the
\* follow-up flag of the payload is the one in force at the classification.
C27_ResolvedQuestionFixedAfterClassification ==
    Returned =>
        /\ turn.out.classified_question = turn.out.result.resolved_question
        /\ turn.out.intent
              = classify_intent(turn.out.result.resolved_question, turn.env.cls)
        /\ HasKey(Payload, "question") =>
              Payload.question = turn.out.classified_question
        /\ turn.out.is_followup_turn = FlagAtClassification

(***************************************************************************)
(* Properties of the front-end's persistence (Spec).                       *)
(***************************************************************************)
\* answer_question raised, or the token stream failed before its end
FailedTurn == Ran /\ (turn.out.raised \/ turn.env.stream = "fail")

\* the four conversation-state fields of the session
StateFields == <<conversation_summary, scope, resolved_question, primary_response>>

\* the same four fields as they were passed to answer_question
StateFieldsIn ==
    <<turn.a.conversation_summary, turn.a.scope, turn.a.resolved_question,
      turn.a.primary_response>>

\* the same four fields of the result answer_question returned
StateFieldsOut ==
    <<turn.out.result.conversation_summary, turn.out.result.scope,
      turn.out.result.resolved_question, turn.out.result.primary_response>>

\* the contents of the user entries of the history
UserQuestions ==
    LET users == SelectSeq(chat_history, LAMBDA m : m.role = "user")
    IN  [i \in 1..Len(users) |-> users[i].content]

\* after a turn: a failed turn leaves the four fields as they were and adds
\* the question and an error entry to the history; any other turn holds the
\* fields of the result; last_question was the question of the turn before
AfterTurn ==
    Ran =>
        /\ FailedTurn =>
              /\ StateFields = StateFieldsIn
              /\ Len(chat_history) >= 2
              /\ chat_history[Len(chat_history) - 1]
                    = [role |-> "user", content |-> turn.a.question]
              /\ chat_history[Len(chat_history)]
                    = [role |-> "assistant", content |-> ERROR]
        /\ ~FailedTurn => StateFields = StateFieldsOut
        /\ UserQuestions[Len(UserQuestions)] = turn.a.question
        /\ turn.a.last_question =
              IF Len(UserQuestions) = 1 THEN None
              ELSE UserQuestions[Len(UserQuestions) - 1]

\* between turns the four fields stay, and a turn is handed the session's fields
BetweenTurns ==
    /\ (turn.ran /\ ~turn'.ran) =>
          /\ StateFields' = StateFields
          /\ chat_history' = chat_history
    /\ (~turn.ran /\ turn'.ran) =>
          <<turn'.a.conversation_summary, turn'.a.scope, turn'.a.resolved_question,
            turn'.a.primary_response>> = StateFields

\* C28: the front-end persists the four conversation-state fields only after
\* the token stream was consumed to its end; when answer_question raises or
\* the stream fails none of them changes, while the history gains the
\* question and an error entry, so the next turn has the failed question as
\* last_question and the resolved question, scope and anchor of the last
\* successful turn.
C28_PersistOnlyAfterStream == []AfterTurn /\ [][BetweenTurns]_vars

\* a third turn after a failed second one: last_question is the failed
\* question, the resolved question and the anchor are those of the first turn
C28_Witness ==
    /\ Ran
    /\ Len(chat_history) >= 6
    /\ chat_history[2].content = ANSWER
    /\ chat_history[4].content = ERROR
    /\ chat_history[1].content # chat_history[3].content
    /\ turn.a.last_question = chat_history[3].content
    /\ turn.a.resolved_question = chat_history[1].content
    /\ turn.a.primary_response # NoPrimary

(***************************************************************************)
(* Properties of the anchor's use (Spec).                                  *)
(***************************************************************************)
\* a summarize_contract turn whose classified intent carries no identifier
\* and which retrieved the chunks of a contract
SummarizedWithoutId ==
    /\ Ran
    /\ turn.out.branch = "summarize_contract"
    /\ turn.out.intent.readable_ids = <<>>
    /\ ChunkCalls # <<>>

\* C29: on a summarize_contract turn whose intent carries no identifier the
\* contract is taken from the prior primary_response's example_ids only on a
\* follow-up turn; on any other turn the prior primary_response selects no
\* contract.
C29_AnchorSelectsOnlyOnFollowUp ==
    SummarizedWithoutId =>
        /\ ChunkCalls[1].params = <<turn.a.primary_response.example_ids[1]>>
        /\ turn.out.is_followup_turn

\* a text_mention_count turn that returned
CountTurn == Returned /\ turn.out.branch = "text_mention_count"

\* the distinct-document count of the store's reply: the first column
DocumentCount == ToFloat(turn.env.result.rows[1][1])

\* C30: after a successful text_mention_count turn the true_numeric_result of
\* the payload and the returned primary_response carry the distinct-document
\* count the store returned: the primary_response is numeric with that value
\* and has at most five example identifiers.
C30_CountIsTheAnchor ==
    CountTurn =>
        /\ Payload.true_numeric_result = DocumentCount
        /\ turn.out.result.primary_response.type = "numeric"
        /\ turn.out.result.primary_response.value = DocumentCount
        /\ Len(turn.out.result.primary_response.example_ids) <= EXAMPLE_IDS

====
